---- MODULE Spec2Model ----
(***************************************************************************)
(* Model of the enontekio utility crate:                                   *)
(*   - ops/ranges.rs: describe_intersection over the range shapes          *)
(*   - math/modular_arithmetic.rs: multiplication and power                *)
(*   - collections/mod.rs: coordinates_2d and                              *)
(*     are_valid_coordinates_for_2d_grid                                   *)
(***************************************************************************)
EXTENDS Integers, Sequences, FiniteSets, TLC

(* ----------------------------------------------------------------------- *)
(* Bounds                                                                  *)
(* ----------------------------------------------------------------------- *)

\* The integer type T of the ranges is modelled as the values -SpanT .. SpanT.
SpanT == 3

TMin == 0 - SpanT
TMax == SpanT
T == TMin .. TMax

VARIABLES
    self,             \* the receiver of describe_intersection
    other,            \* its argument
    overflow_checks,  \* TRUE: arithmetic overflow panics; FALSE: it wraps
    pc,               \* "call" before the call, "done" after it
    result,           \* the IntersectionDescription returned, or Panic
    op,               \* the modular function called: "multiplication", "power"
    arg_a,            \* its first argument (a, or n)
    arg_b,            \* its second argument (b, or exponent)
    modulus,          \* its third argument
    mpc,              \* "start", "loop" (inside power's while), "done", "panic"
    ret,              \* the value returned, once mpc = "done"
    loc,              \* power's locals: result, a, b
    gop,              \* the collections function called
    grid,             \* its Vec<Vec<T>> argument, a sequence of rows
    coords,           \* the (i32, i32) argument of are_valid_coordinates_for_2d_grid
    gpc,              \* "start", "done", "panic"
    valid_ret,        \* the bool are_valid_coordinates_for_2d_grid returned
    coords_ret        \* the Vec<(usize, usize)> coordinates_2d returned

range_vars == <<self, other, pc, result>>
mod_vars == <<op, arg_a, arg_b, modulus, mpc, ret, loc>>
grid_vars == <<gop, grid, coords, gpc, valid_ret, coords_ret>>
vars == <<self, other, overflow_checks, pc, result,
          op, arg_a, arg_b, modulus, mpc, ret, loc,
          gop, grid, coords, gpc, valid_ret, coords_ret>>

(* ----------------------------------------------------------------------- *)
(* ops/ranges.rs                                                           *)
(* ----------------------------------------------------------------------- *)

Below == "Below"
BelowOverlap == "BelowOverlap"
Within == "Within"
Same == "Same"
Over == "Over"
AboveOverlap == "AboveOverlap"
Above == "Above"

IntersectionDescription ==
    {Below, BelowOverlap, Within, Same, Over, AboveOverlap, Above}

\* The call did not return: an arithmetic overflow panicked.
Panic == "Panic"
\* No call was made yet.
NoResult == "None"

\* std::ops range values. A bound a shape does not have is kept at 0.
Range(s, e) == [shape |-> "Range", start |-> s, end |-> e]
RangeInclusive(s, e) == [shape |-> "RangeInclusive", start |-> s, end |-> e]
RangeFrom(s) == [shape |-> "RangeFrom", start |-> s, end |-> 0]
RangeTo(e) == [shape |-> "RangeTo", start |-> 0, end |-> e]
RangeFull == [shape |-> "RangeFull", start |-> 0, end |-> 0]

is_any_OnlyBelow(d) ==
    CASE d = Below -> FALSE
      [] OTHER -> TRUE

is_any(d) ==
    CASE d = Below -> FALSE
      [] d = Above -> FALSE
      [] OTHER -> TRUE

is_within_WithoutSame(d) ==
    CASE d \in {Within} -> TRUE
      [] OTHER -> FALSE

is_within(d) ==
    CASE d \in {Within, Same} -> TRUE
      [] OTHER -> FALSE

is_over(d) ==
    CASE d \in {Over, Same} -> TRUE
      [] OTHER -> FALSE

\* end + T::one() on a fixed-width integer: at the maximum of the type the
\* addition panics when overflow checks are compiled in and wraps otherwise.
AddOne_NoIncrement(x) == [ok |-> TRUE, val |-> x]

AddOne(x) ==
    IF x < TMax THEN [ok |-> TRUE, val |-> x + 1]
    ELSE IF overflow_checks THEN [ok |-> FALSE, val |-> 0]
    ELSE [ok |-> TRUE, val |-> TMin]

DescribeRangeRange_StrictBelow(s, o) ==
    IF s.end = o.end THEN
        IF s.start < o.start THEN Over
        ELSE IF s.start > o.start THEN Within
        ELSE Same
    ELSE IF s.end < o.end THEN
        IF s.end < o.start THEN Below
        ELSE IF s.start < o.start THEN BelowOverlap
        ELSE Within
    ELSE IF s.start < o.end THEN
        IF s.start <= o.start THEN Over
        ELSE AboveOverlap
    ELSE Above

DescribeRangeRange_OverStrict(s, o) ==
    IF s.end = o.end THEN
        IF s.start < o.start THEN Over
        ELSE IF s.start > o.start THEN Within
        ELSE Same
    ELSE IF s.end < o.end THEN
        IF s.end <= o.start THEN Below
        ELSE IF s.start < o.start THEN BelowOverlap
        ELSE Within
    ELSE IF s.start < o.end THEN
        IF s.start < o.start THEN Over
        ELSE AboveOverlap
    ELSE Above

\* impl Intersect<T, Range<T>> for Range<T>
DescribeRangeRange(s, o) ==
    IF s.end = o.end THEN
        IF s.start < o.start THEN Over
        ELSE IF s.start > o.start THEN Within
        ELSE Same
    ELSE IF s.end < o.end THEN
        IF s.end <= o.start THEN Below
        ELSE IF s.start < o.start THEN BelowOverlap
        ELSE Within
    ELSE IF s.start < o.end THEN
        IF s.start <= o.start THEN Over
        ELSE AboveOverlap
    ELSE Above

\* impl Intersect<T, RangeFrom<T>> for Range<T>
DescribeRangeRangeFrom(s, o) ==
    IF s.end <= o.start THEN Below
    ELSE IF s.start < o.start THEN BelowOverlap
    ELSE Within

\* impl Intersect<T, RangeFull> for Range<T>
DescribeRangeRangeFull(s, o) == Within

DescribeRangeRangeTo_AboveOverlapAtEnd(s, o) ==
    IF s.start >= o.end THEN Above
    ELSE IF s.end >= o.end THEN AboveOverlap
    ELSE Within

\* impl Intersect<T, RangeTo<T>> for Range<T>
DescribeRangeRangeTo(s, o) ==
    IF s.start >= o.end THEN Above
    ELSE IF s.end > o.end THEN AboveOverlap
    ELSE Within

\* impl Intersect<T, Range<T>> for RangeInclusive<T>
DescribeInclusiveRange(s, o) ==
    LET end == AddOne(s.end) IN
    IF ~end.ok THEN Panic
    ELSE DescribeRangeRange(Range(s.start, end.val), o)

\* impl Intersect<T, RangeFrom<T>> for RangeInclusive<T>
DescribeInclusiveRangeFrom(s, o) ==
    LET end == AddOne(s.end) IN
    IF ~end.ok THEN Panic
    ELSE DescribeRangeRangeFrom(Range(s.start, end.val), o)

\* impl Intersect<T, RangeFull> for RangeInclusive<T>
DescribeInclusiveRangeFull(s, o) == Within

\* impl Intersect<T, RangeTo<T>> for RangeInclusive<T>
DescribeInclusiveRangeTo(s, o) ==
    LET end == AddOne(s.end) IN
    IF ~end.ok THEN Panic
    ELSE DescribeRangeRangeTo(Range(s.start, end.val), o)

\* impl Intersect<T, RangeInclusive<T>> for Range<T>
DescribeRangeInclusive(s, o) ==
    LET other_end == AddOne(o.end) IN
    IF ~other_end.ok THEN Panic
    ELSE DescribeRangeRange(s, Range(o.start, other_end.val))

\* impl Intersect<T, RangeInclusive<T>> for RangeInclusive<T>
DescribeInclusiveInclusive(s, o) ==
    LET end == AddOne(s.end) IN
    IF ~end.ok THEN Panic
    ELSE DescribeRangeInclusive(Range(s.start, end.val), o)

\* Trait dispatch of self.describe_intersection(&other) on the two shapes.
describe_intersection(s, o) ==
    CASE s.shape = "Range" /\ o.shape = "Range" -> DescribeRangeRange(s, o)
      [] s.shape = "Range" /\ o.shape = "RangeFrom" -> DescribeRangeRangeFrom(s, o)
      [] s.shape = "Range" /\ o.shape = "RangeFull" -> DescribeRangeRangeFull(s, o)
      [] s.shape = "Range" /\ o.shape = "RangeTo" -> DescribeRangeRangeTo(s, o)
      [] s.shape = "Range" /\ o.shape = "RangeInclusive" -> DescribeRangeInclusive(s, o)
      [] s.shape = "RangeInclusive" /\ o.shape = "Range" -> DescribeInclusiveRange(s, o)
      [] s.shape = "RangeInclusive" /\ o.shape = "RangeFrom" -> DescribeInclusiveRangeFrom(s, o)
      [] s.shape = "RangeInclusive" /\ o.shape = "RangeFull" -> DescribeInclusiveRangeFull(s, o)
      [] s.shape = "RangeInclusive" /\ o.shape = "RangeTo" -> DescribeInclusiveRangeTo(s, o)
      [] s.shape = "RangeInclusive" /\ o.shape = "RangeInclusive" -> DescribeInclusiveInclusive(s, o)

\* No modular function is under call.
NoLocals == [result |-> 0, a |-> 0, b |-> 0]
ModIdle ==
    /\ op = "none"
    /\ arg_a = 0 /\ arg_b = 0 /\ modulus = 0
    /\ mpc = "idle"
    /\ ret = 0
    /\ loc = NoLocals

\* No collections function is under call.
GridIdle ==
    /\ gop = "none"
    /\ grid = <<>>
    /\ coords = <<0, 0>>
    /\ gpc = "idle"
    /\ valid_ret = FALSE
    /\ coords_ret = <<>>

\* The receivers that implement Intersect, and the arguments they accept.
SelfRanges ==
    {Range(s, e) : s \in T, e \in T} \cup {RangeInclusive(s, e) : s \in T, e \in T}

OtherRanges ==
    SelfRanges \cup {RangeFrom(s) : s \in T} \cup {RangeTo(e) : e \in T} \cup {RangeFull}

Init ==
    /\ self \in SelfRanges
    /\ other \in OtherRanges
    /\ overflow_checks \in BOOLEAN
    /\ pc = "call"
    /\ result = NoResult
    /\ ModIdle
    /\ GridIdle

\* One action per implementation of Intersect: the call self.describe_intersection(&other).
RangeVsRange ==
    /\ pc = "call"
    /\ self.shape = "Range"
    /\ other.shape = "Range"
    /\ result' = DescribeRangeRange(self, other)
    /\ pc' = "done"
    /\ UNCHANGED <<self, other, overflow_checks, mod_vars, grid_vars>>

RangeVsRangeFrom ==
    /\ pc = "call"
    /\ self.shape = "Range"
    /\ other.shape = "RangeFrom"
    /\ result' = DescribeRangeRangeFrom(self, other)
    /\ pc' = "done"
    /\ UNCHANGED <<self, other, overflow_checks, mod_vars, grid_vars>>

RangeVsRangeFull ==
    /\ pc = "call"
    /\ self.shape = "Range"
    /\ other.shape = "RangeFull"
    /\ result' = DescribeRangeRangeFull(self, other)
    /\ pc' = "done"
    /\ UNCHANGED <<self, other, overflow_checks, mod_vars, grid_vars>>

RangeVsRangeTo ==
    /\ pc = "call"
    /\ self.shape = "Range"
    /\ other.shape = "RangeTo"
    /\ result' = DescribeRangeRangeTo(self, other)
    /\ pc' = "done"
    /\ UNCHANGED <<self, other, overflow_checks, mod_vars, grid_vars>>

RangeVsInclusive ==
    /\ pc = "call"
    /\ self.shape = "Range"
    /\ other.shape = "RangeInclusive"
    /\ result' = DescribeRangeInclusive(self, other)
    /\ pc' = "done"
    /\ UNCHANGED <<self, other, overflow_checks, mod_vars, grid_vars>>

InclusiveVsRange ==
    /\ pc = "call"
    /\ self.shape = "RangeInclusive"
    /\ other.shape = "Range"
    /\ result' = DescribeInclusiveRange(self, other)
    /\ pc' = "done"
    /\ UNCHANGED <<self, other, overflow_checks, mod_vars, grid_vars>>

InclusiveVsRangeFrom ==
    /\ pc = "call"
    /\ self.shape = "RangeInclusive"
    /\ other.shape = "RangeFrom"
    /\ result' = DescribeInclusiveRangeFrom(self, other)
    /\ pc' = "done"
    /\ UNCHANGED <<self, other, overflow_checks, mod_vars, grid_vars>>

InclusiveVsRangeFull ==
    /\ pc = "call"
    /\ self.shape = "RangeInclusive"
    /\ other.shape = "RangeFull"
    /\ result' = DescribeInclusiveRangeFull(self, other)
    /\ pc' = "done"
    /\ UNCHANGED <<self, other, overflow_checks, mod_vars, grid_vars>>

InclusiveVsRangeTo ==
    /\ pc = "call"
    /\ self.shape = "RangeInclusive"
    /\ other.shape = "RangeTo"
    /\ result' = DescribeInclusiveRangeTo(self, other)
    /\ pc' = "done"
    /\ UNCHANGED <<self, other, overflow_checks, mod_vars, grid_vars>>

InclusiveVsInclusive ==
    /\ pc = "call"
    /\ self.shape = "RangeInclusive"
    /\ other.shape = "RangeInclusive"
    /\ result' = DescribeInclusiveInclusive(self, other)
    /\ pc' = "done"
    /\ UNCHANGED <<self, other, overflow_checks, mod_vars, grid_vars>>

Next ==
    \/ RangeVsRange
    \/ RangeVsRangeFrom
    \/ RangeVsRangeFull
    \/ RangeVsRangeTo
    \/ RangeVsInclusive
    \/ InclusiveVsRange
    \/ InclusiveVsRangeFrom
    \/ InclusiveVsRangeFull
    \/ InclusiveVsRangeTo
    \/ InclusiveVsInclusive

Spec == Init /\ [][Next]_vars

(* ----------------------------------------------------------------------- *)
(* math/modular_arithmetic.rs                                              *)
(* ----------------------------------------------------------------------- *)

\* u64 and i64 are modelled as WordBits-bit words: u64 is 0 .. Word - 1 and
\* i64 is -(Word / 2) .. Word / 2 - 1, in two's complement.
WordBits == 4

RECURSIVE Pow2(_)
Pow2(n) == IF n = 0 THEN 1 ELSE 2 * Pow2(n - 1)

Word == Pow2(WordBits)
U64 == 0 .. (Word - 1)
I64Min == 0 - (Word \div 2)
I64Max == (Word \div 2) - 1

\* x as i64, for x: u64
AsSigned(x) == IF x > I64Max THEN x - Word ELSE x
\* x as u64, for x: i64
AsUnsigned(x) == IF x < 0 THEN x + Word ELSE x

Abs(x) == IF x < 0 THEN 0 - x ELSE x
\* x % y on i64, y # 0: the remainder of the truncated division, with the
\* sign of x.
Rem(x, y) == IF x < 0 THEN 0 - (Abs(x) % Abs(y)) ELSE x % Abs(y)

Returned(v) == [ok |-> TRUE, val |-> v]
Panicked == [ok |-> FALSE, val |-> 0]

\* A u64 multiplication: past the word it panics when overflow checks are
\* compiled in and wraps otherwise.
MulU64(x, y) ==
    IF x * y < Word THEN Returned(x * y)
    ELSE IF overflow_checks THEN Panicked
    ELSE Returned((x * y) % Word)

\* A u64 subtraction, likewise.
SubU64(x, y) ==
    IF x >= y THEN Returned(x - y)
    ELSE IF overflow_checks THEN Panicked
    ELSE Returned(x - y + Word)

\* An i64 addition, likewise.
AddI64(x, y) ==
    IF x + y >= I64Min /\ x + y <= I64Max THEN Returned(x + y)
    ELSE IF overflow_checks THEN Panicked
    ELSE Returned(AsSigned((x + y) % Word))

\* pub fn multiplication (a: u64, b: u64, modulus: u64) -> u64
multiplication(a0, b0, m) ==
    IF m = 0 THEN Panicked                  \* a >= 0, so a %= 0 divides by zero
    ELSE
    LET a == IF a0 >= m THEN a0 % m ELSE a0
        b == IF b0 >= m THEN b0 % m ELSE b0
        x == a
        xb == MulU64(x, b)
    IN  IF ~xb.ok THEN Panicked
        ELSE
        LET c == xb.val \div m
            ab == MulU64(a, b)
            cm == MulU64(c, m)
        IN  IF ~ab.ok \/ ~cm.ok \/ ~SubU64(ab.val, cm.val).ok THEN Panicked
            ELSE
            LET d == AsSigned(SubU64(ab.val, cm.val).val)
                ms == AsSigned(m)
            IN  IF d = I64Min /\ ms = 0 - 1 THEN Panicked   \* remainder overflow
                ELSE
                LET r == Rem(d, ms) IN
                IF r < 0 THEN
                    LET sum == AddI64(r, ms) IN
                    IF ~sum.ok THEN Panicked ELSE Returned(AsUnsigned(sum.val))
                ELSE Returned(AsUnsigned(r))

InitMod ==
    /\ op \in {"multiplication", "power"}
    /\ arg_a \in U64
    /\ arg_b \in U64
    /\ modulus \in U64
    /\ overflow_checks \in BOOLEAN
    /\ mpc = "start"
    /\ ret = 0
    /\ loc = NoLocals
    /\ self = RangeFull /\ other = RangeFull
    /\ pc = "idle"
    /\ result = NoResult
    /\ GridIdle

\* A call of multiplication(arg_a, arg_b, modulus).
Multiplication ==
    /\ op = "multiplication"
    /\ mpc = "start"
    /\ LET v == multiplication(arg_a, arg_b, modulus) IN
        /\ mpc' = IF v.ok THEN "done" ELSE "panic"
        /\ ret' = v.val
    /\ UNCHANGED <<op, arg_a, arg_b, modulus, loc, overflow_checks, range_vars, grid_vars>>

\* power(arg_a, arg_b, modulus) up to its loop: the early return for
\* modulus 1, else the locals are set.
PowerEnter ==
    /\ op = "power"
    /\ mpc = "start"
    /\ IF modulus = 1
        THEN /\ mpc' = "done"
             /\ ret' = 0
             /\ loc' = loc
        ELSE /\ mpc' = "loop"
             /\ ret' = ret
             /\ loc' = [result |-> 1, a |-> arg_a, b |-> arg_b]
    /\ UNCHANGED <<op, arg_a, arg_b, modulus, overflow_checks, range_vars, grid_vars>>

\* One iteration of while b > 0.
PowerLoop ==
    /\ op = "power"
    /\ mpc = "loop"
    /\ loc.b > 0
    /\ LET odd == (loc.b % 2) # 0
           res == IF odd THEN multiplication(loc.result, loc.a, modulus)
                  ELSE Returned(loc.result)
           sq == multiplication(loc.a, loc.a, modulus)
       IN  IF ~res.ok \/ ~sq.ok
            THEN /\ mpc' = "panic"
                 /\ loc' = loc
            ELSE /\ mpc' = "loop"
                 /\ loc' = [result |-> res.val, a |-> sq.val, b |-> loc.b \div 2]
    /\ UNCHANGED <<op, arg_a, arg_b, modulus, ret, overflow_checks, range_vars, grid_vars>>

\* The loop is over: power returns result.
PowerReturn ==
    /\ op = "power"
    /\ mpc = "loop"
    /\ loc.b = 0
    /\ mpc' = "done"
    /\ ret' = loc.result
    /\ UNCHANGED <<op, arg_a, arg_b, modulus, loc, overflow_checks, range_vars, grid_vars>>

NextMod ==
    \/ Multiplication
    \/ PowerEnter
    \/ PowerLoop
    \/ PowerReturn

SpecMod == InitMod /\ [][NextMod]_vars

(* ----------------------------------------------------------------------- *)
(* collections/mod.rs                                                      *)
(* ----------------------------------------------------------------------- *)

\* The vectors called have at most MaxRows rows of at most MaxCols elements;
\* the coordinates asked about are -1 .. MaxCoord.
MaxRows == 2
MaxCols == 2
MaxCoord == 2

\* usize, modelled as a WordBits-bit word like u64.
USizeMax == Word - 1

\* A row Vec<T>: the elements play no part, every one is 0.
Rows == UNION {[1 .. n -> {0}] : n \in 0 .. MaxCols}

\* Vec<Vec<T>>: the rows may differ in length.
Grids == UNION {[1 .. n -> Rows] : n \in 0 .. MaxRows}

\* (0..n).map(move |j| (i, j))
RowCoordinates(i, n) == [k \in 1 .. n |-> <<i, k - 1>>]

\* (i..self.len()).flat_map(|i| (0..self[0].len()).map(move |j| (i, j))):
\* the closure, and self[0] in it, is evaluated once per row only.
RECURSIVE FlatMapRows(_, _)
FlatMapRows(g, i) ==
    IF i >= Len(g) THEN <<>>
    ELSE RowCoordinates(i, Len(g[1])) \o FlatMapRows(g, i + 1)

\* impl<T> Coordinates2D for Vec<Vec<T>>
coordinates_2d(g) == FlatMapRows(g, 0)

\* A usize subtraction: below 0 it panics when overflow checks are compiled
\* in and wraps otherwise.
SubUSize(x, y) ==
    IF x >= y THEN Returned(x - y)
    ELSE IF overflow_checks THEN Panicked
    ELSE Returned(x - y + USizeMax + 1)

\* pub fn are_valid_coordinates_for_2d_grid<T>(grid, coords) -> bool
are_valid_coordinates_for_2d_grid(g, c) ==
    IF Len(g) = 0 THEN Returned(FALSE)
    ELSE
    LET i == c[1]
        j == c[2]
    IN  IF i < 0 \/ j < 0 THEN Returned(FALSE)
        ELSE
        LET max_i == SubUSize(Len(g), 1)
            max_j == SubUSize(Len(g[1]), 1)
        IN  IF ~max_i.ok \/ ~max_j.ok THEN Panicked
            ELSE Returned(i <= max_i.val /\ j <= max_j.val)

InitGrid ==
    /\ gop \in {"are_valid_coordinates_for_2d_grid", "coordinates_2d"}
    /\ grid \in Grids
    /\ coords \in (0 - 1 .. MaxCoord) \X (0 - 1 .. MaxCoord)
    /\ overflow_checks \in BOOLEAN
    /\ gpc = "start"
    /\ valid_ret = FALSE
    /\ coords_ret = <<>>
    /\ self = RangeFull /\ other = RangeFull
    /\ pc = "idle"
    /\ result = NoResult
    /\ ModIdle

\* A call of are_valid_coordinates_for_2d_grid(&grid, coords).
AreValidCoordinates ==
    /\ gop = "are_valid_coordinates_for_2d_grid"
    /\ gpc = "start"
    /\ LET v == are_valid_coordinates_for_2d_grid(grid, coords) IN
        /\ gpc' = IF v.ok THEN "done" ELSE "panic"
        /\ valid_ret' = v.val
    /\ UNCHANGED <<gop, grid, coords, coords_ret, overflow_checks, range_vars, mod_vars>>

\* A call of grid.coordinates_2d().
Coordinates2D ==
    /\ gop = "coordinates_2d"
    /\ gpc = "start"
    /\ coords_ret' = coordinates_2d(grid)
    /\ gpc' = "done"
    /\ UNCHANGED <<gop, grid, coords, valid_ret, overflow_checks, range_vars, mod_vars>>

NextGrid ==
    \/ AreValidCoordinates
    \/ Coordinates2D

SpecGrid == InitGrid /\ [][NextGrid]_vars

(* ----------------------------------------------------------------------- *)
(* Properties of describe_intersection                                     *)
(* ----------------------------------------------------------------------- *)

Done == pc = "done"
Bounded(r) == r.shape \in {"Range", "RangeInclusive"}
HalfOpen(r) == r.shape = "Range"
Unbounded(r) == r.shape \in {"RangeFrom", "RangeTo", "RangeFull"}
HasStart(r) == r.shape \in {"Range", "RangeInclusive", "RangeFrom"}
HasEnd(r) == r.shape \in {"Range", "RangeInclusive", "RangeTo"}

\* The decision table of the bounded case, one row per outcome.
DecisionTable(s1, e1, s2, e2) ==
    CASE e1 = e2 /\ s1 < s2 -> Over
      [] e1 = e2 /\ s1 > s2 -> Within
      [] e1 = e2 /\ s1 = s2 -> Same
      [] e1 < e2 /\ e1 <= s2 -> Below
      [] e1 < e2 /\ ~(e1 <= s2) /\ s1 < s2 -> BelowOverlap
      [] e1 < e2 /\ ~(e1 <= s2) /\ ~(s1 < s2) -> Within
      [] e1 > e2 /\ s1 < e2 /\ s1 <= s2 -> Over
      [] e1 > e2 /\ s1 < e2 /\ ~(s1 <= s2) -> AboveOverlap
      [] e1 > e2 /\ s1 >= e2 -> Above

\* C1: for every pair of half-open ranges [s1,e1) and [s2,e2), zero-width and
\* inverted ones included, describe_intersection returns the variant of the
\* ordered decision table (end equality first, then self ends first, then
\* self ends last, Above when s1 >= e2).
C1_DecisionTable ==
    (Done /\ HalfOpen(self) /\ HalfOpen(other))
        => result = DecisionTable(self.start, self.end, other.start, other.end)

\* An inverted self that ends inside a wider other: the sixth row.
C1_Witness ==
    /\ Done /\ HalfOpen(self) /\ HalfOpen(other)
    /\ self.start > self.end
    /\ other.start < other.end
    /\ result = Within

\* b contains a's span, by direct comparison of the boundaries b has.
ContainsSpan(b, a) ==
    /\ HasStart(b) => b.start <= a.start
    /\ HasEnd(b) => a.end <= b.end

NonInclusive(r) == r.shape # "RangeInclusive"

\* C2 as stated: for every half-open a and every half-open or unbounded b,
\* degenerate ranges included, is_within() holds iff b contains a's span.
C2_WithinIffContains ==
    (Done /\ HalfOpen(self) /\ NonInclusive(other))
        => (is_within(result) <=> ContainsSpan(other, self))

\* C2 amended: is_within() implies that b contains a's span for every a,
\* and the two are equivalent whenever a is not empty (s1 < e1); b may be
\* of any shape, zero-width or inverted.
C2_WithinIffContainsNonEmpty ==
    (Done /\ HalfOpen(self) /\ NonInclusive(other))
        => /\ is_within(result) => ContainsSpan(other, self)
           /\ self.start < self.end
                => (is_within(result) <=> ContainsSpan(other, self))

\* A non-empty self strictly inside the end of an other that contains it.
C2_Witness ==
    /\ Done /\ HalfOpen(self) /\ HalfOpen(other)
    /\ self.start < self.end
    /\ other.start <= self.start /\ self.end < other.end
    /\ result = Within

\* x belongs to the range r.
Member(x, r) ==
    /\ HasStart(r) => r.start <= x
    /\ r.shape \in {"Range", "RangeTo"} => x < r.end
    /\ r.shape = "RangeInclusive" => x <= r.end

\* Some value of the type belongs to both ranges. A bounded self lies inside
\* the type, so a common integer, if any, is a value of T.
HaveCommonValue(a, b) == \E x \in T : Member(x, a) /\ Member(x, b)

NonEmpty(r) == Bounded(r) => \E x \in T : Member(x, r)

\* C3 as stated: for every half-open a and every half-open or unbounded b,
\* degenerate ranges included, is_any() holds iff a and b share an integer.
C3_AnyIffCommonValue ==
    (Done /\ HalfOpen(self) /\ NonInclusive(other))
        => (is_any(result) <=> HaveCommonValue(self, other))

\* C3 amended: when a is not empty and b is not an empty bounded range,
\* is_any() holds iff a and b share an integer (the result is Below or Above
\* exactly when they share none).
C3_AnyIffCommonValueNonEmpty ==
    (Done /\ HalfOpen(self) /\ NonInclusive(other)
          /\ NonEmpty(self) /\ NonEmpty(other))
        => /\ is_any(result) <=> HaveCommonValue(self, other)
           /\ result \in {Below, Above} <=> ~HaveCommonValue(self, other)

\* Two non-empty ranges that only touch: no value in common, Below.
C3_Witness ==
    /\ Done /\ HalfOpen(self) /\ HalfOpen(other)
    /\ self.start < self.end /\ other.start < other.end
    /\ self.end = other.start
    /\ result = Below

\* s..=e rewritten as s..(e+1), for an inclusive range whose end is below
\* the maximum of the type; any other range is left as it is.
BelowMax(r) == r.shape = "RangeInclusive" /\ r.end < TMax
AsHalfOpen(r) == IF BelowMax(r) THEN Range(r.start, r.end + 1) ELSE r

\* C4: an inclusive range s..=e with e below the maximum of the type is
\* classified exactly like s..(e+1), as self against every shape of other
\* and as other against every half-open or inclusive self.
C4_InclusiveAsHalfOpen ==
    Done =>
        /\ BelowMax(self) => result = describe_intersection(AsHalfOpen(self), other)
        /\ BelowMax(other) => result = describe_intersection(self, AsHalfOpen(other))

\* Both ranges inclusive and below the maximum, the call returned Same.
C4_Witness ==
    /\ Done /\ BelowMax(self) /\ BelowMax(other)
    /\ result = Same
    /\ describe_intersection(AsHalfOpen(self), AsHalfOpen(other)) = Same

\* C5 as stated: every call returns one of the seven variants, inclusive
\* ranges ending at the maximum of the type included, and end + 1 never
\* overflows on the way.
WrappedEnd(r) == r.shape = "RangeInclusive" /\ r.end = TMax /\ ~overflow_checks
C5_NoErrorPath ==
    Done => /\ result \in IntersectionDescription
            /\ ~(WrappedEnd(self) /\ other.shape # "RangeFull")
            /\ ~(WrappedEnd(other) /\ Bounded(self))

Mirror(d) ==
    CASE d = Below -> Above
      [] d = Above -> Below
      [] d = BelowOverlap -> AboveOverlap
      [] d = AboveOverlap -> BelowOverlap
      [] d = Within -> Over
      [] d = Over -> Within
      [] d = Same -> Same

\* C6: for all bounded a and b (half-open or inclusive, zero-width and
\* inverted ones included) b.describe_intersection(a) is the mirror image of
\* a.describe_intersection(b), so one is Same iff the other is; and the two
\* calls fail together: one panics on end + 1 iff the other does.
C6_MirrorImage ==
    (Done /\ Bounded(self) /\ Bounded(other)) =>
        LET back == describe_intersection(other, self) IN
        /\ result = Panic <=> back = Panic
        /\ result # Panic => back = Mirror(result)
        /\ result = Same <=> back = Same

\* An inverted inclusive self that ends inside a half-open other.
C6_Witness ==
    /\ Done /\ self.shape = "RangeInclusive" /\ HalfOpen(other)
    /\ self.end + 1 < self.start
    /\ result = Within
    /\ describe_intersection(other, self) = Over

\* The exclusive end of a bounded range: end + 1 for an inclusive one.
ExclusiveEnd(r) == IF r.shape = "RangeInclusive" THEN r.end + 1 ELSE r.end

\* C7 as stated: for all bounded a and b the result is Same iff a and b
\* have the same start and the same exclusive end; so a against a is Same.
C7_SameIffEqual ==
    (Done /\ Bounded(self) /\ Bounded(other)) =>
        /\ result = Same <=> /\ self.start = other.start
                             /\ ExclusiveEnd(self) = ExclusiveEnd(other)
        /\ self = other => result = Same

\* The rows of the two half-bounded cases.
FromTable(s1, e1, s2) ==
    CASE e1 <= s2 -> Below
      [] ~(e1 <= s2) /\ s1 < s2 -> BelowOverlap
      [] ~(e1 <= s2) /\ ~(s1 < s2) -> Within

ToTable(s1, e1, e2) ==
    CASE s1 >= e2 -> Above
      [] ~(s1 >= e2) /\ e1 > e2 -> AboveOverlap
      [] ~(s1 >= e2) /\ ~(e1 > e2) -> Within

\* C8: a bounded self [s1,e1) against [s2,+inf) is Below when e1 <= s2, else
\* BelowOverlap when s1 < s2, else Within; against (-inf,e2) it is Above when
\* s1 >= e2, else AboveOverlap when e1 > e2, else Within; against the full
\* range it is Within, for a half-open and an inclusive self alike. An
\* inclusive self below the maximum of the type counts with e1 = end + 1.
C8_UnboundedOther ==
    (Done /\ Unbounded(other)) =>
        /\ (other.shape = "RangeFull") => result = Within
        /\ (other.shape = "RangeFrom" /\ (HalfOpen(self) \/ BelowMax(self)))
            => /\ result = FromTable(self.start, ExclusiveEnd(self), other.start)
               /\ result \in {Below, BelowOverlap, Within}
        /\ (other.shape = "RangeTo" /\ (HalfOpen(self) \/ BelowMax(self)))
            => /\ result = ToTable(self.start, ExclusiveEnd(self), other.end)
               /\ result \in {Above, AboveOverlap, Within}

\* A half-open self whose end is exactly the end of (-inf,e2): Within.
C8_Witness ==
    /\ Done /\ HalfOpen(self) /\ other.shape = "RangeTo"
    /\ self.start < other.end
    /\ self.end = other.end
    /\ result = Within

(* ----------------------------------------------------------------------- *)
(* Properties of multiplication and power                                  *)
(* ----------------------------------------------------------------------- *)

Ended == mpc \in {"done", "panic"}

\* C9 as stated: for all a, b and every modulus >= 1, multiplication returns
\* the exact product a * b reduced modulo modulus, a value of 0 .. modulus - 1,
\* and no overflow makes the call fail or changes the result.
C9_ModularProduct ==
    (Ended /\ op = "multiplication" /\ modulus >= 1) =>
        /\ mpc = "done"
        /\ ret = (arg_a * arg_b) % modulus
        /\ ret \in 0 .. (modulus - 1)

\* n^e mod m with n^0 = 1, reduced at every step so that no intermediate
\* value leaves the integers TLC computes with.
RECURSIVE PowMod(_, _, _)
PowMod(n, e, m) == IF e = 0 THEN 1 % m ELSE (n * PowMod(n, e - 1, m)) % m

\* C10 as stated: for all n, exponent and every modulus >= 1, power ends by
\* returning n^exponent mod modulus, and 0 when modulus is 1.
C10_ModularPower ==
    (Ended /\ op = "power" /\ modulus >= 1) =>
        /\ mpc = "done"
        /\ ret = PowMod(arg_a, arg_b, modulus)
        /\ modulus = 1 => ret = 0

(* ----------------------------------------------------------------------- *)
(* Properties of the collections functions                                 *)
(* ----------------------------------------------------------------------- *)

GridEnded == gpc \in {"done", "panic"}

\* Every row has the length of the first one.
Rectangular(g) == \A k \in 1 .. Len(g) : Len(g[k]) = Len(g[1])
NumberOfRows(g) == Len(g)
NumberOfColumns(g) == IF Len(g) = 0 THEN 0 ELSE Len(g[1])

\* C11 as stated: for every rectangular grid and every signed (i, j) the
\* call returns, and it returns true iff 0 <= i < rows and 0 <= j < columns;
\* so false for an empty grid, for a negative coordinate, and for a grid
\* whose rows are empty.
C11_ValidIffInside ==
    (GridEnded /\ gop = "are_valid_coordinates_for_2d_grid" /\ Rectangular(grid)) =>
        /\ gpc = "done"
        /\ valid_ret <=> /\ 0 <= coords[1] /\ coords[1] < NumberOfRows(grid)
                         /\ 0 <= coords[2] /\ coords[2] < NumberOfColumns(grid)

\* The coordinates of rows i.. of g, row by row, each row to its own length.
RECURSIVE AllCoordinatesFrom(_, _)
AllCoordinatesFrom(g, i) ==
    IF i >= Len(g) THEN <<>>
    ELSE RowCoordinates(i, Len(g[i + 1])) \o AllCoordinatesFrom(g, i + 1)

\* C12 as stated: for every vector of vectors coordinates_2d returns exactly
\* the pairs (i, j) with 0 <= i < rows and 0 <= j < length of row i, each
\* once, in row-major order; the empty list for an empty outer vector.
C12_AllCoordinates ==
    (GridEnded /\ gop = "coordinates_2d") =>
        /\ gpc = "done"
        /\ coords_ret = AllCoordinatesFrom(grid, 0)
        /\ Len(grid) = 0 => coords_ret = <<>>

====
